---- MODULE Spec2Model ----
(***************************************************************************)
(* The e-commerce demo of Kiro-Workshop/ecommerce.  The backend: the       *)
(* SQLite store of backend/models/database.js (tables products and cart),  *)
(* its initialisation, and the Express routes that read and write it.      *)
(* Every route handler issues one or two SQL statements; a statement runs  *)
(* atomically in the store and its callback either issues the next         *)
(* statement or answers the request.  Statements of different requests     *)
(* interleave freely.  The frontend: the quantity controls of the Product  *)
(* and Cart pages, the fetches of the Cart page, and the chat widget.      *)
(***************************************************************************)
EXTENDS Integers, Sequences, FiniteSets, Bags, TLC

VARIABLES
    products,   \* table products: the set of product rows
    cart,       \* table cart: the set of rows [id, product_id, quantity]
    seq,        \* sqlite_sequence of cart: the largest id AUTOINCREMENT gave
    inflight,   \* bag of the requests whose handler has not answered yet
    last,       \* the request answered last, with the response it got
    nreq,       \* number of requests received so far
    added,      \* per product, the sum of the quantities POSTed for it
    onlyAdds,   \* TRUE while every request received was a POST, quantity > 0
    script,     \* the client's position in the add, add, remove scenario
    created,    \* the ids of the cart rows ever inserted, in insertion order
    boot,       \* the position of the server in the initialisation of the store
    wire,       \* bag of the responses on their way to the Cart page
    cartItems,  \* Cart page: the state cartItems, the rows it displays
    page,       \* Cart page: whether it is mounted, and what was clicked on it
    pageQuantity, \* Product page: the state quantity
    typed,      \* what kind of text was last typed in a number input
    sent,       \* the quantity a control of the frontend last put in a body
    isOpen,     \* chat widget: the state isOpen
    messages,   \* chat widget: the state messages, the transcript
    inputMessage, \* chat widget: the state inputMessage
    isLoading,  \* chat widget: the state isLoading
    chat        \* chat widget: bag of the positions of the sendMessage calls under way

store == <<products, cart, seq, inflight, last, nreq, added, onlyAdds, script,
           created>>

\* The state of the Cart page, apart from the responses on their way to it.
cartPage == <<cartItems, page>>

\* The state of the Product page and of the quantity controls.
controls == <<pageQuantity, typed, sent>>

\* The state of the chat widget, components/Chatbot.js.
chatbot == <<isOpen, messages, inputMessage, isLoading, chat>>

\* What the handlers of the cart routes leave alone besides the store.
frontend == <<cartPage, controls, chatbot>>

vars == <<store, boot, wire, frontend>>

----------------------------------------------------------------------------
(* Bounds of the model. *)

MaxReqs == 3        \* requests received in one run
MaxQty == 2         \* largest quantity a request body carries
MaxId == 2          \* largest :id a PUT or DELETE names
MaxOrderReqs == 4   \* requests received in one run of SpecOrder

----------------------------------------------------------------------------
(* The catalog: the 20 rows the seed inserts, prices in cents. *)

SeedProducts ==
    << <<"Laptop Pro", 129999>>, <<"Smartphone X", 89999>>,
       <<"Wireless Headphones", 19999>>, <<"Smart Watch", 34999>>,
       <<"Camera DSLR", 149999>>, <<"Gaming Console", 49999>>,
       <<"Tablet Plus", 59999>>, <<"Bluetooth Speaker", 7999>>,
       <<"Keyboard Mechanical", 14999>>, <<"Mouse Wireless", 4999>>,
       <<"Monitor 4K", 69999>>, <<"Webcam HD", 8999>>,
       <<"External SSD", 17999>>, <<"Power Bank", 3999>>,
       <<"USB Hub", 2999>>, <<"Desk Lamp", 4499>>,
       <<"Office Chair", 29999>>, <<"Backpack Tech", 7999>>,
       <<"Water Bottle", 2499>>, <<"Coffee Maker", 12999>>
    >>

\* The products table after the seed: AUTOINCREMENT ids 1..20 in array order.
SeededTable ==
    { [id |-> i, name |-> SeedProducts[i][1], price |-> SeedProducts[i][2]] :
        i \in 1..Len(SeedProducts) }

ProductIds == { p.id : p \in products }

----------------------------------------------------------------------------
(* Request bodies and parameters the clients send. *)

\* product_id of a POST body: two seeded products and one id the catalog lacks.
ReqProductIds == {1, 2, Len(SeedProducts) + 1}

\* quantity of a POST or PUT body; hasQuantity = FALSE is a body without one.
ReqQuantities == -1..MaxQty

\* :id of PUT /:id and DELETE /:id.
ReqLineIds == 1..MaxId

\* What is kept of the response answered before the last one.
Summary(resp) ==
    [op |-> resp.op, arg |-> resp.arg, quantity |-> resp.quantity,
     hasQuantity |-> resp.hasQuantity, status |-> resp.status,
     matched |-> resp.matched]

NoResponse ==
    [op |-> "none", arg |-> 0, quantity |-> 0, hasQuantity |-> FALSE,
     status |-> 0, message |-> "", id |-> 0, rows |-> <<>>,
     matched |-> 0, changed |-> FALSE, failed |-> FALSE, rowQuantity |-> 0,
     prev |-> [op |-> "none", arg |-> 0, quantity |-> 0,
               hasQuantity |-> FALSE, status |-> 0, matched |-> 0]]

\* row and rowQuantity are the id and the quantity of the row the SELECT of
\* router.post returned (0 before it ran and when it returned no row).
\* page says whether the Cart page sent the request and awaits the response.
Request(op, arg, quantity, hasQuantity, pc) ==
    [op |-> op, arg |-> arg, quantity |-> quantity,
     hasQuantity |-> hasQuantity, pc |-> pc, row |-> 0, rowQuantity |-> 0,
     failed |-> FALSE, page |-> FALSE]

----------------------------------------------------------------------------
\* An empty cart, no request received, and the pages as they first render:
\* useState([]), useState(1), useState(false), useState(''), useState(false).
Fresh ==
    /\ cart = {}
    /\ seq = 0
    /\ inflight = EmptyBag
    /\ last = NoResponse
    /\ nreq = 0
    /\ added = [p \in 1..(Len(SeedProducts) + 1) |-> 0]
    /\ onlyAdds = TRUE
    /\ script = [step |-> 0, product_id |-> 0, a |-> 0, b |-> 0]
    /\ created = <<>>
    /\ wire = EmptyBag
    /\ cartItems = <<>>
    /\ page = [mounted |-> FALSE, adds |-> 0, clicks |-> 0, plus |-> 0,
               onlyPlus |-> TRUE, target |-> 0, base |-> 0]
    /\ pageQuantity = 1
    /\ typed = "nothing"
    /\ sent = [control |-> "none", quantity |-> 0]
    /\ isOpen = FALSE
    /\ messages = <<>>
    /\ inputMessage = <<>>
    /\ isLoading = FALSE
    /\ chat = EmptyBag

\* The server is up on a store its first initialisation has seeded.
Init ==
    /\ products = SeededTable
    /\ boot = [pc |-> "up", i |-> Len(SeedProducts), runs |-> 1,
               seq |-> Len(SeedProducts)]
    /\ Fresh

----------------------------------------------------------------------------
(* The SQL statements of the cart routes, as functions of the cart table.   *)
(* SQLite runs with its default foreign_keys = OFF (the connection of      *)
(* database.js never issues PRAGMA foreign_keys), so the FOREIGN KEY       *)
(* clause of the cart table is parsed and not enforced.                    *)

Min(S) == CHOOSE x \in S : \A y \in S : x <= y

\* SELECT * FROM cart WHERE product_id = ?  (all matching rows)
SelectByProduct(c, product_id) == { r \in c : r.product_id = product_id }

\* GetRow with the lookup made on the line id instead of the product_id.
GetRowByLineId(c, product_id) ==
    IF \E r \in c : r.id = product_id THEN product_id ELSE 0

\* db.get: the first matching row in rowid order; id 0 stands for no row.
GetRow(c, product_id) ==
    IF SelectByProduct(c, product_id) = {} THEN 0
    ELSE Min({ r.id : r \in SelectByProduct(c, product_id) })

\* The quantity column of the row db.get returned (0 when it returned none).
RowQuantity(c, id) ==
    IF id = 0 THEN 0 ELSE (CHOOSE r \in c : r.id = id).quantity

\* UpdateAdd with the quantity overwritten instead of incremented.
UpdateAddOverwrites(c, quantity, product_id) ==
    { IF r.product_id = product_id
        THEN [r EXCEPT !.quantity = quantity] ELSE r : r \in c }

\* UPDATE cart SET quantity = quantity + ? WHERE product_id = ?
UpdateAdd(c, quantity, product_id) ==
    { IF r.product_id = product_id
        THEN [r EXCEPT !.quantity = @ + quantity] ELSE r : r \in c }

\* NextId without AUTOINCREMENT: one more than the largest id in the table.
NextIdMaxRowid(c, s) ==
    IF c = {} THEN 1
    ELSE (CHOOSE m \in { r.id : r \in c } : \A r \in c : r.id <= m) + 1

\* id INTEGER PRIMARY KEY AUTOINCREMENT: one more than the largest id the
\* table ever held, which sqlite_sequence (s) records.
NextId(c, s) == s + 1

\* INSERT INTO cart (product_id, quantity) VALUES (?, ?), the new row's id
\* being the next AUTOINCREMENT value.
Insert(c, id, product_id, quantity) ==
    c \cup { [id |-> id, product_id |-> product_id, quantity |-> quantity] }

\* UpdateSet with the quantity added instead of overwritten.
UpdateSetAdds(c, quantity, id) ==
    { IF r.id = id THEN [r EXCEPT !.quantity = @ + quantity] ELSE r : r \in c }

\* UPDATE cart SET quantity = ? WHERE id = ?
UpdateSet(c, quantity, id) ==
    { IF r.id = id THEN [r EXCEPT !.quantity = quantity] ELSE r : r \in c }

\* Delete with the row looked up by product_id instead of id.
DeleteByProduct(c, id) == { r \in c : r.product_id # id }

\* DELETE FROM cart WHERE id = ?
Delete(c, id) == { r \in c : r.id # id }

\* Number of rows a WHERE clause matches.
Matches(c, field, value) == Cardinality({ r \in c : r[field] = value })

\* InIdOrder with the newest row first.
RECURSIVE InReverseIdOrder(_)
InReverseIdOrder(c) ==
    IF c = {} THEN <<>>
    ELSE LET first == CHOOSE r \in c : \A o \in c : r.id >= o.id
         IN  <<first>> \o InReverseIdOrder(c \ {first})

\* The cart rows in rowid order, as a sequence.
RECURSIVE InIdOrder(_)
InIdOrder(c) ==
    IF c = {} THEN <<>>
    ELSE LET first == CHOOSE r \in c : \A o \in c : r.id <= o.id
         IN  <<first>> \o InIdOrder(c \ {first})

\* One row of the join: sqlite3 builds the row object column by column, so
\* p.id, coming after c.id, is the value left under the key id.
JoinedRow(r, p) ==
    [id |-> p.id, quantity |-> r.quantity, name |-> p.name, price |-> p.price]

\* SELECT c.id, c.quantity, p.* FROM cart c JOIN products p
\*   ON c.product_id = p.id
RECURSIVE JoinSeq(_, _)
JoinSeq(rows, prods) ==
    IF rows = <<>> THEN <<>>
    ELSE LET r == Head(rows)
             m == { p \in prods : p.id = r.product_id }
         IN  (IF m = {} THEN <<>> ELSE <<JoinedRow(r, CHOOSE p \in m : TRUE)>>)
             \o JoinSeq(Tail(rows), prods)

SelectJoin(c, prods) == JoinSeq(InIdOrder(c), prods)

----------------------------------------------------------------------------
(* The Cart page, pages/Cart.js. *)

\* CartTotal with the quantity left out of the product.
RECURSIVE CartTotalOfPrices(_)
CartTotalOfPrices(items) ==
    IF items = <<>> THEN 0
    ELSE LET n == Len(items)
         IN  CartTotalOfPrices(SubSeq(items, 1, n - 1)) + items[n].price

\* total: cartItems.reduce((sum, item) => sum + item.price * item.quantity, 0),
\* in cents.
RECURSIVE CartTotal(_)
CartTotal(items) ==
    IF items = <<>> THEN 0
    ELSE LET n == Len(items)
         IN  CartTotal(SubSeq(items, 1, n - 1))
             + items[n].price * items[n].quantity

----------------------------------------------------------------------------
(* The responses. *)

\* res.json(body) and res.status(500).json({ error }) of a handler: the
\* request r is answered and leaves the set of requests in flight.
Respond(r, status, message, id, rows, matched, err) ==
    /\ inflight' = inflight (-) SetToBag({r})
    /\ wire' = IF r.page
                 THEN wire (+) SetToBag({[op |-> r.op, status |-> status,
                                          rows |-> rows]})
                 ELSE wire
    /\ UNCHANGED <<boot, frontend>>
    /\ last' = [op |-> r.op, arg |-> r.arg, quantity |-> r.quantity,
                hasQuantity |-> r.hasQuantity, status |-> status,
                message |-> message, id |-> id, rows |-> rows,
                matched |-> matched, changed |-> (cart' # cart),
                failed |-> (r.failed \/ err), rowQuantity |-> r.rowQuantity,
                prev |-> Summary(last)]

\* A request enters its handler, which issues its first statement.
Receive(r) ==
    /\ inflight' = inflight (+) SetToBag({r})
    /\ onlyAdds' = (onlyAdds /\ r.op = "POST" /\ r.hasQuantity /\ r.quantity > 0)
    /\ added' = IF r.op = "POST" /\ r.hasQuantity
                  THEN [added EXCEPT ![r.arg] = @ + r.quantity] ELSE added
    /\ UNCHANGED <<products, cart, seq, last, created, boot>>

\* The requests are counted, and a run receives at most MaxReqs of them.
Counted == nreq < MaxReqs /\ nreq' = nreq + 1

----------------------------------------------------------------------------
(* router.post('/'): AddOrIncrement. *)

post(product_id, quantity, hasQuantity) ==
    Receive(Request("POST", product_id, quantity, hasQuantity, "get"))

\* The SELECT ran and its callback chose the branch.  err is ignored by the
\* callback: on a store error row is undefined and the INSERT branch runs.
post_get(r, err) ==
    /\ r.op = "POST" /\ r.pc = "get"
    /\ LET row == IF err THEN 0 ELSE GetRow(cart, r.arg)
           r2 == [r EXCEPT !.pc = IF row # 0 THEN "update" ELSE "insert",
                           !.row = row, !.failed = err,
                           !.rowQuantity = RowQuantity(cart, row)]
       IN  inflight' = (inflight (-) SetToBag({r})) (+) SetToBag({r2})
    /\ UNCHANGED <<products, cart, seq, last, nreq, added, onlyAdds, script,
                   created, boot, wire, frontend>>

\* post_update writing the quantity it read plus the quantity POSTed,
\* instead of letting the UPDATE add to the stored value.
post_update_from_row(r, err) ==
    /\ r.op = "POST" /\ r.pc = "update"
    /\ LET n == Matches(cart, "product_id", r.arg)
           constraint == ~r.hasQuantity /\ n > 0
       IN  IF err \/ constraint
             THEN /\ cart' = cart
                  /\ Respond(r, 500, "error", 0, <<>>, IF err THEN 0 ELSE n, err)
             ELSE /\ cart' = (IF r.hasQuantity
                                THEN UpdateAddOverwrites(cart,
                                         r.rowQuantity + r.quantity, r.arg)
                                ELSE cart)
                  /\ Respond(r, 200, "Cart updated", r.row, <<>>, n, err)
    /\ UNCHANGED <<products, seq, nreq, added, onlyAdds, script, created>>

\* The UPDATE of the found branch ran and its callback answered.  A NULL
\* quantity makes quantity + ? NULL, which NOT NULL refuses when a row matches.
post_update(r, err) ==
    /\ r.op = "POST" /\ r.pc = "update"
    /\ LET n == Matches(cart, "product_id", r.arg)
           constraint == ~r.hasQuantity /\ n > 0
       IN  IF err \/ constraint
             THEN /\ cart' = cart
                  /\ Respond(r, 500, "error", 0, <<>>, IF err THEN 0 ELSE n, err)
             ELSE /\ cart' = (IF r.hasQuantity
                                THEN UpdateAdd(cart, r.quantity, r.arg) ELSE cart)
                  /\ Respond(r, 200, "Cart updated", r.row, <<>>, n, err)
    /\ UNCHANGED <<products, seq, nreq, added, onlyAdds, script, created>>

\* The INSERT of the not-found branch ran and its callback answered.
post_insert(r, err) ==
    /\ r.op = "POST" /\ r.pc = "insert"
    /\ IF err \/ ~r.hasQuantity
         THEN /\ cart' = cart /\ seq' = seq /\ created' = created
              /\ Respond(r, 500, "error", 0, <<>>, 0, err)
         ELSE /\ cart' = Insert(cart, NextId(cart, seq), r.arg, r.quantity)
              /\ seq' = NextId(cart, seq)
              /\ created' = Append(created, NextId(cart, seq))
              /\ Respond(r, 200, "Added to cart", NextId(cart, seq), <<>>, 1, err)
    /\ UNCHANGED <<products, nreq, added, onlyAdds, script>>

----------------------------------------------------------------------------
(* router.put('/:id'): SetQuantity. *)

put(id, quantity, hasQuantity) ==
    Receive(Request("PUT", id, quantity, hasQuantity, "run"))

put_run(r, err) ==
    /\ r.op = "PUT" /\ r.pc = "run"
    /\ LET n == Matches(cart, "id", r.arg)
           constraint == ~r.hasQuantity /\ n > 0
       IN  IF err \/ constraint
             THEN /\ cart' = cart
                  /\ Respond(r, 500, "error", 0, <<>>, IF err THEN 0 ELSE n, err)
             ELSE /\ cart' = (IF r.hasQuantity
                                THEN UpdateSet(cart, r.quantity, r.arg) ELSE cart)
                  /\ Respond(r, 200, "Quantity updated", 0, <<>>, n, err)
    /\ UNCHANGED <<products, seq, nreq, added, onlyAdds, script, created>>

----------------------------------------------------------------------------
(* router.delete('/:id'): Remove. *)

delete(id) == Receive(Request("DELETE", id, 0, FALSE, "run"))

\* delete_run with the statement naming the table products instead of cart.
delete_run_from_products(r, err) ==
    /\ r.op = "DELETE" /\ r.pc = "run"
    /\ cart' = cart
    /\ IF err
         THEN /\ products' = products
              /\ Respond(r, 500, "error", 0, <<>>, 0, err)
         ELSE /\ products' = Delete(products, r.arg)
              /\ Respond(r, 200, "Item removed", 0, <<>>,
                         Matches(products, "id", r.arg), err)
    /\ UNCHANGED <<seq, nreq, added, onlyAdds, script, created>>

delete_run(r, err) ==
    /\ r.op = "DELETE" /\ r.pc = "run"
    /\ IF err
         THEN /\ cart' = cart
              /\ Respond(r, 500, "error", 0, <<>>, 0, err)
         ELSE /\ cart' = Delete(cart, r.arg)
              /\ Respond(r, 200, "Item removed", 0, <<>>,
                         Matches(cart, "id", r.arg), err)
    /\ UNCHANGED <<products, seq, nreq, added, onlyAdds, script, created>>

----------------------------------------------------------------------------
(* router.get('/'): View. *)

get == Receive(Request("GET", 0, 0, FALSE, "run"))

\* get_all answering 404 when no row is found, as router.get('/:id') of the
\* products does.
get_all_404_when_empty(r, err) ==
    /\ r.op = "GET" /\ r.pc = "run"
    /\ cart' = cart
    /\ IF err
         THEN Respond(r, 500, "error", 0, <<>>, 0, err)
         ELSE IF SelectJoin(cart, products) = <<>>
                THEN Respond(r, 404, "error", 0, <<>>, 0, err)
                ELSE Respond(r, 200, "rows", 0, SelectJoin(cart, products), 0, err)
    /\ UNCHANGED <<products, seq, nreq, added, onlyAdds, script, created>>

get_all(r, err) ==
    /\ r.op = "GET" /\ r.pc = "run"
    /\ cart' = cart
    /\ IF err
         THEN Respond(r, 500, "error", 0, <<>>, 0, err)
         ELSE Respond(r, 200, "rows", 0, SelectJoin(cart, products), 0, err)
    /\ UNCHANGED <<products, seq, nreq, added, onlyAdds, script, created>>

----------------------------------------------------------------------------
(* The specifications. *)

InFlight == BagToSet(inflight)

\* A client sends some request.
AnyRequest ==
    \/ \E p \in ReqProductIds, q \in ReqQuantities : post(p, q, TRUE)
    \/ \E p \in ReqProductIds : post(p, 0, FALSE)
    \/ \E i \in ReqLineIds, q \in ReqQuantities : put(i, q, TRUE)
    \/ \E i \in ReqLineIds : put(i, 0, FALSE)
    \/ \E i \in ReqLineIds : delete(i)
    \/ get

Arrive == Counted /\ AnyRequest /\ UNCHANGED <<script, wire, frontend>>

\* The store runs the pending statement of some request; err says whether it
\* reports an error.
Run(err) ==
    \/ \E r \in InFlight : post_get(r, err)
    \/ \E r \in InFlight : post_update(r, err)
    \/ \E r \in InFlight : post_insert(r, err)
    \/ \E r \in InFlight : put_run(r, err)
    \/ \E r \in InFlight : delete_run(r, err)
    \/ \E r \in InFlight : get_all(r, err)

\* Requests are served concurrently and the store reports no error.
Next == Arrive \/ Run(FALSE)

Spec == Init /\ [][Next]_vars

\* One request at a time: a request is received when none is in flight.
NextSeq == (inflight = EmptyBag /\ Arrive) \/ Run(FALSE)

SpecSeq == Init /\ [][NextSeq]_vars

\* One request at a time, and any statement may report a store error.
NextFault == (inflight = EmptyBag /\ Arrive) \/ (\E err \in BOOLEAN : Run(err))

SpecFault == Init /\ [][NextFault]_vars

----------------------------------------------------------------------------
(* The scenario of one client working alone: View at any time; add a       *)
(* product of the catalog, add it again, remove its line.                  *)

ScenarioAdd ==
    /\ script.step = 0
    /\ \E p \in ProductIds, a \in 1..MaxQty :
          /\ post(p, a, TRUE)
          /\ script' = [step |-> 1, product_id |-> p, a |-> a, b |-> 0]

ScenarioAddAgain ==
    /\ script.step = 1
    /\ \E b \in 1..MaxQty :
          /\ post(script.product_id, b, TRUE)
          /\ script' = [script EXCEPT !.step = 2, !.b = b]

ScenarioRemove ==
    /\ script.step = 2
    /\ \E line \in SelectByProduct(cart, script.product_id) : delete(line.id)
    /\ script' = [script EXCEPT !.step = 3]

ScenarioView == get /\ UNCHANGED script

\* The client sends its next request when the last one was answered.
Alone == inflight = EmptyBag /\ UNCHANGED <<nreq, wire, frontend>>

NextScenario ==
    \/ Alone /\ ScenarioAdd
    \/ Alone /\ ScenarioAddAgain
    \/ Alone /\ ScenarioRemove
    \/ Alone /\ ScenarioView
    \/ \E r \in InFlight : post_get(r, FALSE)
    \/ \E r \in InFlight : post_update(r, FALSE)
    \/ \E r \in InFlight : post_insert(r, FALSE)
    \/ \E r \in InFlight : delete_run(r, FALSE)
    \/ \E r \in InFlight : get_all(r, FALSE)

SpecScenario == Init /\ [][NextScenario]_vars

----------------------------------------------------------------------------
(* One client at a time sending well-formed requests: adds and quantity    *)
(* updates with a quantity >= 1, removes and Views.                        *)

WellFormedRequest ==
    \/ \E p \in ReqProductIds, q \in 1..MaxQty : post(p, q, TRUE)
    \/ \E i \in ReqLineIds, q \in 1..MaxQty : put(i, q, TRUE)
    \/ \E i \in ReqLineIds : delete(i)
    \/ get

ArriveWellFormed ==
    /\ inflight = EmptyBag
    /\ nreq < MaxOrderReqs /\ nreq' = nreq + 1
    /\ WellFormedRequest
    /\ UNCHANGED <<script, wire, frontend>>

NextOrder ==
    \/ ArriveWellFormed
    \/ \E r \in InFlight : post_get(r, FALSE)
    \/ \E r \in InFlight : post_update(r, FALSE)
    \/ \E r \in InFlight : post_insert(r, FALSE)
    \/ \E r \in InFlight : put_run(r, FALSE)
    \/ \E r \in InFlight : delete_run(r, FALSE)
    \/ \E r \in InFlight : get_all(r, FALSE)

SpecOrder == Init /\ [][NextOrder]_vars

----------------------------------------------------------------------------
(* Two adds racing on an existing line: a product of the catalog is added  *)
(* and answered, then two more adds of it are sent, the second of them     *)
(* without waiting for the answer to the first.                            *)

RaceAdd ==
    /\ script.step \in {1, 4}
    /\ script.step = 1 => inflight = EmptyBag
    /\ \E q \in 1..MaxQty :
          /\ post(script.product_id, q, TRUE)
          /\ script' = IF script.step = 1
                         THEN [script EXCEPT !.step = 4, !.b = q]
                         ELSE [script EXCEPT !.step = 5]
    /\ UNCHANGED <<nreq, wire, frontend>>

NextRace ==
    \/ Alone /\ ScenarioAdd
    \/ RaceAdd
    \/ \E r \in InFlight : post_get(r, FALSE)
    \/ \E r \in InFlight : post_update(r, FALSE)
    \/ \E r \in InFlight : post_insert(r, FALSE)

SpecRace == Init /\ [][NextRace]_vars

----------------------------------------------------------------------------
(* The claims. *)

Answered == inflight = EmptyBag

LinesOf(product_id) == SelectByProduct(cart, product_id)

RECURSIVE SumQuantity(_)
SumQuantity(rows) ==
    IF rows = {} THEN 0
    ELSE LET r == CHOOSE x \in rows : TRUE
         IN  r.quantity + SumQuantity(rows \ {r})

\* C1: served concurrently, once every POST /cart received (all of them with
\* a positive quantity, and no other request) is answered, each product
\* that was added has exactly one cart line.
C1_OneLineAfterConcurrentAdds ==
    (Answered /\ onlyAdds) =>
        \A p \in ReqProductIds :
            added[p] > 0 => Cardinality(LinesOf(p)) = 1

\* C2: served concurrently, once every POST /cart received (all of them with
\* a positive quantity, and no other request) is answered, the quantities
\* of the lines of each product sum to the quantities POSTed for it.
C2_QuantityIsSumOfConcurrentAdds ==
    (Answered /\ onlyAdds) =>
        \A p \in ReqProductIds : SumQuantity(LinesOf(p)) = added[p]

\* C3: with requests served one at a time and a store that reports no
\* error, no two cart lines ever have the same product_id.
C3_OneLinePerProductSequential ==
    \A r1, r2 \in cart : r1.product_id = r2.product_id => r1 = r2

\* C3 witness: a product was added again while another product has a line:
\* the second add updated the existing line.
C3_Witness ==
    /\ last.op = "POST" /\ last.message = "Cart updated" /\ last.matched = 1
    /\ Cardinality(cart) = 2

\* C4: in the scenario, every View is answered with [] before the first add,
\* one line of quantity a after it, one line of quantity a + b after the
\* second add, and [] again after the remove.
C4_ScenarioViews ==
    (last.op = "GET" /\ Answered) =>
        /\ last.status = 200
        /\ script.step \in {0, 3} => last.rows = <<>>
        /\ script.step = 1 =>
              /\ Len(last.rows) = 1
              /\ last.rows[1].quantity = script.a
              /\ last.rows[1].name = SeedProducts[script.product_id][1]
        /\ script.step = 2 =>
              /\ Len(last.rows) = 1
              /\ last.rows[1].quantity = script.a + script.b
              /\ last.rows[1].name = SeedProducts[script.product_id][1]

\* C4 witness: the whole scenario ran, with different quantities, and the
\* View after the remove was answered.
C4_Witness ==
    /\ script.step = 3 /\ script.a # script.b
    /\ last.op = "GET" /\ Answered /\ last.rows = <<>>

\* C5: every cart line has a quantity >= 1.
C5_QuantityAtLeastOne == \A r \in cart : r.quantity >= 1

\* C6: a POST /cart or PUT /cart/:id whose quantity is <= 0 is answered with
\* an error and changes no cart line.
C6_NonPositiveQuantityRejected ==
    (last.op \in {"POST", "PUT"} /\ last.hasQuantity /\ last.quantity <= 0) =>
        (last.status # 200 /\ ~last.changed)

\* C7: a POST /cart whose product_id is no product of the catalog is
\* answered with an error and changes no cart line.
C7_UnknownProductRejected ==
    (last.op = "POST" /\ last.arg \notin ProductIds) =>
        (last.status # 200 /\ ~last.changed)

\* C8: the product_id of every cart line is the id of a product.
C8_NoOrphanLine == \A r \in cart : r.product_id \in ProductIds

\* C9: a request one of whose statements met a store error is answered with
\* status 500 and changes no cart line.
C9_StoreErrorSurfaced ==
    last.failed => (last.status = 500 /\ ~last.changed)

\* C10: a PUT /cart/:id whose id matches no cart line is answered with an
\* error and changes no cart line.
C10_UnknownLineRejected ==
    (last.op = "PUT" /\ last.matched = 0) =>
        (last.status # 200 /\ ~last.changed)

\* The last two requests answered were the same request, sent twice in a row.
SentTwice(op) ==
    /\ Answered
    /\ last.op = op /\ last.prev.op = op
    /\ last.arg = last.prev.arg
    /\ last.quantity = last.prev.quantity
    /\ last.hasQuantity = last.prev.hasQuantity

\* C11: a View answered right after a PUT /cart/:id that set an existing
\* line to a quantity q >= 1 holds a row for that line, and every row for
\* it has quantity q.
C11_ViewShowsSetQuantity ==
    (/\ Answered /\ last.op = "GET" /\ last.status = 200
     /\ last.prev.op = "PUT" /\ last.prev.hasQuantity
     /\ last.prev.quantity >= 1 /\ last.prev.matched = 1) =>
        \A line \in cart : line.id = last.prev.arg =>
            /\ \E i \in 1..Len(last.rows) : last.rows[i].id = line.product_id
            /\ \A i \in 1..Len(last.rows) :
                  last.rows[i].id = line.product_id =>
                      last.rows[i].quantity = last.prev.quantity

\* C12: a PUT /cart/:id sent a second time in a row, with the same id and
\* body, leaves the cart as the first one left it.
C12_SetQuantityIdempotent ==
    SentTwice("PUT") => (~last.changed /\ last.status = last.prev.status)

\* C12 witness: the same PUT was answered twice in a row, and it matched a
\* line, which holds the quantity 2 it asked for.
C12_Witness ==
    /\ SentTwice("PUT") /\ last.status = 200 /\ last.matched = 1
    /\ \E line \in cart : line.id = last.arg /\ line.quantity = last.quantity
    /\ last.quantity = 2

\* C13: a DELETE /cart/:id sent a second time in a row is answered 200 like
\* the first, changes nothing, and no cart line has that id afterwards.
C13_RemoveIdempotent ==
    SentTwice("DELETE") =>
        /\ last.prev.status = 200 /\ last.status = 200
        /\ ~last.changed
        /\ \A line \in cart : line.id # last.arg

\* C13 witness: the same DELETE was answered twice in a row, the first one
\* having removed a line.
C13_Witness ==
    SentTwice("DELETE") /\ last.prev.matched = 1 /\ last.matched = 0

\* C14: whenever the UPDATE of a POST /cart runs on a product that has a
\* line, the line's quantity becomes its quantity plus the quantity POSTed,
\* and is not less than it was.
C14_AddNeverDecreases ==
    [][\A r \in InFlight :
         (post_update(r, FALSE) /\ r.hasQuantity) =>
             \A line \in cart : line.product_id = r.arg =>
                 \E after \in cart' :
                     /\ after.id = line.id
                     /\ after.quantity = line.quantity + r.quantity
                     /\ after.quantity >= line.quantity]_vars

\* The price of a cart line, times its quantity: the price is that of the
\* product the line refers to, and a line that refers to none has no price.
RECURSIVE LineTotal(_, _)
LineTotal(line, prods) ==
    IF prods = {} THEN 0
    ELSE LET p == CHOOSE x \in prods : TRUE
         IN  (IF p.id = line.product_id THEN p.price * line.quantity ELSE 0)
             + LineTotal(line, prods \ {p})

\* The sum of price * quantity over the lines of the cart table.
RECURSIVE StoreTotal(_, _)
StoreTotal(c, prods) ==
    IF c = {} THEN 0
    ELSE LET line == CHOOSE x \in c : TRUE
         IN  LineTotal(line, prods) + StoreTotal(c \ {line}, prods)

\* The cart of the example: $19.99 x 3, $5.00 x 2, $100.00 x 1.
ExampleItems ==
    << [id |-> 1, quantity |-> 3, name |-> "a", price |-> 1999],
       [id |-> 2, quantity |-> 2, name |-> "b", price |-> 500],
       [id |-> 3, quantity |-> 1, name |-> "c", price |-> 10000] >>

\* The Cart page got the answer of its last GET /cart and shows its total.
Viewed == Answered /\ last.op = "GET" /\ last.status = 200

C16_OrphanLineSurfaced ==
    (Answered /\ last.op = "GET" /\ \E line \in cart : line.product_id \notin ProductIds)
        => last.status # 200

\* C17: a View of a cart without lines is answered 200 with an empty list,
\* whose total on the Cart page is 0.
C17_EmptyCartViewsEmpty ==
    (Answered /\ last.op = "GET" /\ cart = {}) =>
        (last.status = 200 /\ last.rows = <<>> /\ CartTotal(last.rows) = 0)

\* C17 witness: a View of a cart that was emptied again was answered.
C17_Witness ==
    Answered /\ last.op = "GET" /\ cart = {} /\ last.prev.op = "DELETE"
        /\ last.prev.matched = 1

\* The cart lines in the order in which they were inserted.
RECURSIVE InCreationOrder(_, _)
InCreationOrder(ids, c) ==
    IF ids = <<>> THEN <<>>
    ELSE LET here == { r \in c : r.id = Head(ids) }
         IN  (IF here = {} THEN <<>> ELSE <<CHOOSE r \in here : TRUE>>)
             \o InCreationOrder(Tail(ids), c)

\* C18: the rows of a View are the cart lines (joined with their products)
\* in the order in which the lines were inserted, whatever increments and
\* quantity updates the lines got since.
C18_ViewInCreationOrder ==
    Viewed => last.rows = JoinSeq(InCreationOrder(created, cart), products)

\* C18 witness: a View of two lines of which the older one was incremented
\* or set after the newer one was inserted.
C18_Witness ==
    /\ Viewed /\ Len(last.rows) = 2 /\ nreq = 4
    /\ last.prev.op \in {"POST", "PUT"} /\ last.prev.matched = 1
    /\ \E line \in cart : line.id = 1 /\ line.product_id = last.rows[1].id
    /\ \/ last.prev.op = "PUT" /\ last.prev.arg = 1
       \/ last.prev.op = "POST" /\ last.prev.arg = last.rows[1].id
                                /\ last.rows[1].id # last.rows[2].id

\* Both racing adds are answered.
RaceOver == Answered /\ script.step = 5

\* Both racing adds read the line before either wrote it: the one answered
\* last had read the quantity the first add left.
BothReadSame == RaceOver /\ last.rowQuantity = script.a

\* C19, as claimed: when two concurrent adds of a product whose line exists
\* both read the same quantity, the line ends with a quantity that is not
\* the original one plus both increments.
C19_LostUpdateAsClaimed ==
    BothReadSame =>
        \E line \in LinesOf(script.product_id) :
            line.quantity # added[script.product_id]

\* C19, amended: after two concurrent adds of a product whose line exists,
\* in every interleaving, the product still has one line and its quantity is
\* the original one plus both increments.
C19_NoLostUpdate ==
    RaceOver =>
        /\ Cardinality(LinesOf(script.product_id)) = 1
        /\ \A line \in LinesOf(script.product_id) :
              line.quantity = added[script.product_id]

\* C19 witness: both racing adds read the same quantity and were answered.
C19_Witness ==
    /\ BothReadSame
    /\ added[script.product_id] > script.a + script.b

\* C20: no two cart lines have the same id, no id was given to two inserted
\* lines (present or removed since), and every line's id is one of those
\* given at an insertion.
C20_IdsUniqueAndFresh ==
    /\ \A r1, r2 \in cart : r1.id = r2.id => r1 = r2
    /\ \A i, j \in 1..Len(created) : created[i] = created[j] => i = j
    /\ \A r \in cart : \E i \in 1..Len(created) : created[i] = r.id

\* C20 witness: a line was inserted after an older line was removed, and
\* is the only line of the cart.
C20_Witness ==
    /\ Answered /\ Len(created) = 2
    /\ cart # {} /\ \A r \in cart : r.id = created[2]

----------------------------------------------------------------------------
(* The products routes, routes/products.js. *)

\* SELECT * FROM products: the rows in rowid order, the i-th being the row
\* with i rows at or before it.
SelectProducts(prods) ==
    [i \in 1..Cardinality(prods) |->
        CHOOSE p \in prods : Cardinality({ o \in prods : o.id <= p.id }) = i]

\* GET /api/products
list == Receive(Request("LIST", 0, 0, FALSE, "run"))

\* SELECT * FROM products ran and its callback answered.
products_all(r, err) ==
    /\ r.op = "LIST" /\ r.pc = "run"
    /\ cart' = cart
    /\ IF err
         THEN Respond(r, 500, "error", 0, <<>>, 0, err)
         ELSE Respond(r, 200, "rows", 0, SelectProducts(products),
                      Cardinality(products), err)
    /\ UNCHANGED <<products, seq, nreq, added, onlyAdds, script, created>>

\* GET /api/products/:id
product(id) == Receive(Request("PRODUCT", id, 0, FALSE, "run"))

\* products_get with the handler returning without an answer when no row
\* is found: the request stays open.
products_get_silent_when_missing(r, err) ==
    /\ r.op = "PRODUCT" /\ r.pc = "run"
    /\ cart' = cart
    /\ IF err
         THEN Respond(r, 500, "error", 0, <<>>, 0, err)
         ELSE IF Matches(products, "id", r.arg) = 0
                THEN /\ inflight' = (inflight (-) SetToBag({r}))
                                       (+) SetToBag({[r EXCEPT !.pc = "returned"]})
                     /\ UNCHANGED <<last, boot, wire, frontend>>
                ELSE Respond(r, 200, "row", r.arg, <<>>, 1, err)
    /\ UNCHANGED <<products, seq, nreq, added, onlyAdds, script, created>>

\* SELECT * FROM products WHERE id = ? ran and its callback answered: 500 on
\* an error, 404 when there is no row, the row otherwise.
products_get(r, err) ==
    /\ r.op = "PRODUCT" /\ r.pc = "run"
    /\ cart' = cart
    /\ IF err
         THEN Respond(r, 500, "error", 0, <<>>, 0, err)
         ELSE IF Matches(products, "id", r.arg) = 0
                THEN Respond(r, 404, "Product not found", 0, <<>>, 0, err)
                ELSE Respond(r, 200, "row", r.arg, <<>>, 1, err)
    /\ UNCHANGED <<products, seq, nreq, added, onlyAdds, script, created>>

----------------------------------------------------------------------------
(* Every route under a store that may report an error on any statement    *)
(* and that runs every statement it was given.  Requests are served       *)
(* concurrently; a run receives at most MaxLiveReqs of them.              *)

MaxLiveReqs == 3

\* A product of the catalog and an id the catalog lacks.
LiveProductIds == {1, Len(SeedProducts) + 1}

\* One request for each path of each handler.
LiveRequest ==
    \/ \E p \in LiveProductIds : post(p, 1, TRUE)
    \/ post(1, 0, FALSE)
    \/ put(1, 1, TRUE)
    \/ put(1, 0, FALSE)
    \/ delete(1)
    \/ get
    \/ list
    \/ \E p \in LiveProductIds : product(p)

LiveArrive ==
    /\ nreq < MaxLiveReqs /\ nreq' = nreq + 1
    /\ LiveRequest
    /\ UNCHANGED <<script, wire, frontend>>

\* The store runs the pending statement of some request and invokes its
\* callback.
LiveRun ==
    \E err \in BOOLEAN :
        \/ Run(err)
        \/ \E r \in InFlight : products_all(r, err)
        \/ \E r \in InFlight : products_get(r, err)

NextLive == LiveArrive \/ LiveRun

\* The store eventually invokes each callback: weak fairness of its steps.
SpecLive == Init /\ [][NextLive]_vars /\ WF_vars(LiveRun)

Pending == inflight # EmptyBag

\* C21: under a store that eventually invokes each callback, whenever a
\* request is open every request gets answered; and a step answers at most
\* one request, recording for it one response with status 200, 404 or 500.
C21_EveryRequestAnswered ==
    /\ Pending ~> Answered
    /\ [][BagCardinality(inflight') < BagCardinality(inflight) =>
            /\ BagCardinality(inflight') = BagCardinality(inflight) - 1
            /\ last'.status \in {200, 404, 500}
            /\ \E r \in InFlight :
                  /\ inflight' = inflight (-) SetToBag({r})
                  /\ last'.op = r.op /\ last'.arg = r.arg]_vars

\* C21 witness: every request of the run was received and answered, the
\* last of them for a product the catalog lacks (404) after one that the
\* store failed (500).
C21_Witness ==
    /\ Answered /\ nreq = MaxLiveReqs
    /\ last.op = "PRODUCT" /\ last.status = 404
    /\ last.prev.status = 500

\* C22: no step of a cart route (AddOrIncrement, SetQuantity, Remove, View,
\* with well-formed or ill-formed arguments) changes the products table.
C22_CatalogReadOnly == [][products' = products]_vars

\* C22 witness: a line was added, its quantity set and the line removed, and
\* the catalog is the seeded one.
C22_Witness ==
    /\ Answered /\ products = SeededTable
    /\ last.op = "DELETE" /\ last.matched = 1 /\ last.changed
    /\ last.prev.op = "PUT" /\ last.prev.matched = 1 /\ last.prev.status = 200

----------------------------------------------------------------------------
(* The initialisation of the store, models/database.js, run each time the  *)
(* server starts; the database file outlives the server.  The server       *)
(* answers GET /api/products while it initialises and afterwards.          *)

MaxRuns == 3   \* times the server is started

\* The database file before the server first starts: no table, no row.
InitBoot ==
    /\ products = {}
    /\ boot = [pc |-> "down", i |-> 0, runs |-> 0, seq |-> 0]
    /\ Fresh

\* node server.js: CREATE TABLE IF NOT EXISTS products and cart (which leave
\* an existing table as it is), then the SELECT COUNT(*) is run.
start ==
    /\ boot.pc = "down" /\ boot.runs < MaxRuns
    /\ boot' = [boot EXCEPT !.pc = "count", !.runs = @ + 1]
    /\ UNCHANGED <<store, wire, frontend>>

\* count_done with the seed run whatever the count is.
count_done_seeds_always ==
    /\ boot.pc = "count"
    /\ boot' = [boot EXCEPT !.pc = "seed", !.i = 0]
    /\ UNCHANGED <<store, wire, frontend>>

\* The callback of SELECT COUNT(*): the seed runs if row.count === 0.
count_done ==
    /\ boot.pc = "count"
    /\ boot' = IF Cardinality(products) = 0
                 THEN [boot EXCEPT !.pc = "seed", !.i = 0]
                 ELSE [boot EXCEPT !.pc = "up"]
    /\ UNCHANGED <<store, wire, frontend>>

\* products.forEach(p => stmt.run(p)): the next row of the array is
\* inserted under the next AUTOINCREMENT id; after the last, stmt.finalize().
seed_row ==
    /\ boot.pc = "seed"
    /\ LET i == boot.i + 1
           id == NextId(products, boot.seq)
       IN  /\ products' = products \cup
                   { [id |-> id, name |-> SeedProducts[i][1],
                      price |-> SeedProducts[i][2]] }
           /\ boot' = [boot EXCEPT !.i = i, !.seq = id,
                          !.pc = IF i = Len(SeedProducts) THEN "up" ELSE "seed"]
    /\ UNCHANGED <<cart, seq, inflight, last, nreq, added, onlyAdds, script,
                   created, wire, frontend>>

\* The server is stopped, once it has initialised and answered its requests.
stop ==
    /\ boot.pc = "up" /\ inflight = EmptyBag
    /\ boot' = [boot EXCEPT !.pc = "down"]
    /\ UNCHANGED <<store, wire, frontend>>

\* A client asks for the list of products or for one product.
BootArrive ==
    /\ boot.pc # "down"
    /\ Counted
    /\ list \/ \E p \in LiveProductIds : product(p)
    /\ UNCHANGED <<script, wire, frontend>>

NextBoot ==
    \/ start
    \/ count_done
    \/ seed_row
    \/ stop
    \/ BootArrive
    \/ \E r \in InFlight : products_all(r, FALSE)
    \/ \E r \in InFlight : products_get(r, FALSE)

SpecBoot == InitBoot /\ [][NextBoot]_vars

ChangedIds == { r.id : r \in (cart \ cart') \cup (cart' \ cart) }

\* C24: a step of PUT /cart/L or DELETE /cart/L changes no line but L; a
\* step of POST /cart for product p changes no line of another product and
\* changes at most one line.
C24_TouchesOnlyTarget ==
    [][cart' # cart =>
        /\ last'.op \in {"PUT", "DELETE"} => ChangedIds \subseteq {last'.arg}
        /\ last'.op = "POST" =>
              /\ \A r \in (cart \ cart') \cup (cart' \ cart) :
                    r.product_id = last'.arg
              /\ Cardinality(ChangedIds) <= 1]_vars

----------------------------------------------------------------------------
(* The quantity controls of the Product page and of the Cart page: the     *)
(* buttons - and +, and the number input.  A text is a sequence of         *)
(* characters; a number is a record, isNaN saying that it is NaN.          *)

MaxLen == 2   \* length of the texts typed in a number input

Chars == {"-", "+", "0", "1", "a", " ", "."}

RECURSIVE TextsOfLength(_)
TextsOfLength(n) ==
    IF n = 0 THEN {<<>>}
    ELSE { Append(t, c) : t \in TextsOfLength(n - 1), c \in Chars }

\* e.target.value: every text of at most MaxLen characters.
Texts == UNION { TextsOfLength(n) : n \in 0..MaxLen }

IsDigit(c) == c \in {"0", "1"}

DigitValue(c) == IF c = "1" THEN 1 ELSE 0

RECURSIVE SkipWhiteSpace(_)
SkipWhiteSpace(t) ==
    IF t # <<>> /\ Head(t) = " " THEN SkipWhiteSpace(Tail(t)) ELSE t

\* The value of the longest prefix of t made of digits, acc being the value
\* of the digits read so far.
RECURSIVE DigitsValue(_, _)
DigitsValue(t, acc) ==
    IF t = <<>> \/ ~IsDigit(Head(t)) THEN acc
    ELSE DigitsValue(Tail(t), 10 * acc + DigitValue(Head(t)))

\* parseInt(text): leading white space is skipped, a sign is read, then the
\* digits up to the first character that is not one; NaN without a digit.
parseInt(t) ==
    LET s == SkipWhiteSpace(t)
        signed == s # <<>> /\ Head(s) \in {"-", "+"}
        digits == IF signed THEN Tail(s) ELSE s
    IN  IF digits = <<>> \/ ~IsDigit(Head(digits))
          THEN [isNaN |-> TRUE, value |-> 0]
          ELSE [isNaN |-> FALSE,
                value |-> IF signed /\ Head(s) = "-"
                            THEN 0 - DigitsValue(digits, 0)
                            ELSE DigitsValue(digits, 0)]

\* n || 1: NaN and 0 (and -0) are falsy.
OrOne(n) == IF n.isNaN \/ n.value = 0 THEN 1 ELSE n.value

\* Math.max(a, b) of two numbers that are not NaN.
MathMax(a, b) == IF a >= b THEN a ELSE b

\* MinusQuantity without the Math.max.
MinusQuantityUnclamped(q) == q - 1

\* The button -: Math.max(1, quantity - 1)
MinusQuantity(q) == MathMax(1, q - 1)

\* The number input: Math.max(1, parseInt(e.target.value) || 1)
TypedQuantity(t) == MathMax(1, OrOne(parseInt(t)))

\* The button +: quantity + 1
PlusQuantity(q) == q + 1

\* What kind of text t is for parseInt.
TextKind(t) ==
    IF t = <<>> THEN "empty"
    ELSE IF parseInt(t).isNaN THEN "not a number"
    ELSE IF parseInt(t).value = 0 THEN "zero"
    ELSE IF parseInt(t).value < 0 THEN "negative"
    ELSE "positive"

\* What the onChange handler of a number input makes of each text: the kind
\* of the text and the quantity it passes on.
Typings == { [kind |-> TextKind(t), quantity |-> TypedQuantity(t)] : t \in Texts }

\* A quantity control changes no state but the Product page's quantity and
\* the body it sends.
ControlsOnly == UNCHANGED <<store, boot, wire, cartPage, chatbot>>

\* Product page, the button -.
ProductMinus ==
    /\ ControlsOnly
    /\ pageQuantity' = MinusQuantity(pageQuantity)
    /\ UNCHANGED <<typed, sent>>

\* Product page, the number input.
ProductTyped ==
    /\ ControlsOnly
    /\ \E t \in Typings :
          /\ pageQuantity' = t.quantity
          /\ typed' = t.kind
          /\ UNCHANGED sent

\* Product page, the button +, pressed while the quantity is at most MaxQty.
ProductPlus ==
    /\ ControlsOnly
    /\ pageQuantity <= MaxQty
    /\ pageQuantity' = PlusQuantity(pageQuantity)
    /\ UNCHANGED <<typed, sent>>

\* Product page, addToCart: the quantity of the body of its POST.
ProductAddBody ==
    /\ ControlsOnly
    /\ sent' = [control |-> "addToCart", quantity |-> pageQuantity]
    /\ UNCHANGED <<pageQuantity, typed>>

\* Cart page, the button - of an item displayed with a quantity >= 1: the
\* quantity of the body of its PUT.
CartMinusBody ==
    /\ ControlsOnly
    /\ \E shown \in 1..MaxQty :
          /\ sent' = [control |-> "cart -", quantity |-> MinusQuantity(shown)]
          /\ UNCHANGED <<pageQuantity, typed>>

\* Cart page, the number input: the quantity of the body of its PUT.
CartTypedBody ==
    /\ ControlsOnly
    /\ \E t \in Typings :
          /\ sent' = [control |-> "cart input", quantity |-> t.quantity]
          /\ typed' = t.kind
          /\ UNCHANGED pageQuantity

\* Cart page, the button + of an item displayed with a quantity >= 1.
CartPlusBody ==
    /\ ControlsOnly
    /\ \E shown \in 1..MaxQty :
          /\ sent' = [control |-> "cart +", quantity |-> PlusQuantity(shown)]
          /\ UNCHANGED <<pageQuantity, typed>>

NextControls ==
    \/ ProductMinus
    \/ ProductTyped
    \/ ProductPlus
    \/ ProductAddBody
    \/ CartMinusBody
    \/ CartTypedBody
    \/ CartPlusBody

SpecControls == Init /\ [][NextControls]_vars

\* C25: the quantity state of the Product page, and every quantity a control
\* of the Product page or of the Cart page puts in a request body, is an
\* integer >= 1.
C25_QuantitySentAtLeastOne ==
    /\ pageQuantity \in Nat /\ pageQuantity >= 1
    /\ sent.control # "none" => (sent.quantity \in Nat /\ sent.quantity >= 1)

\* C25 witness: a negative number was typed in the number input of the Cart
\* page, which sent 1, the Product page's quantity having been raised.
C25_Witness ==
    /\ typed = "negative" /\ sent.control = "cart input" /\ sent.quantity = 1
    /\ pageQuantity > 1

----------------------------------------------------------------------------
(* The Cart page, pages/Cart.js, on a cart that the Product page filled.   *)
(* A fetch is a request received by the server; the response the handler   *)
(* answers travels back (wire) and resolves the promise of the fetch at    *)
(* some later time, whatever the order in which the fetches were made.     *)

MaxAdds == 2     \* adds made from the Product page before the Cart page opens
MaxClicks == 2   \* clicks on the controls of the Cart page

\* A request the Cart page sends: its response resolves a promise of the page.
PageRequest(op, arg, q, hasQuantity) ==
    [Request(op, arg, q, hasQuantity, "run") EXCEPT !.page = TRUE]

\* What a request of the pages leaves alone, besides what Receive does.
PageFrame == UNCHANGED <<nreq, script, controls, chatbot>>

\* Product page, addToCart: POST /api/cart { product_id, quantity }, sent
\* before the Cart page is opened and once the add before it was answered.
addToCart ==
    /\ ~page.mounted /\ page.adds < MaxAdds /\ inflight = EmptyBag
    /\ \E p \in {1, 2}, q \in 1..MaxQty : post(p, q, TRUE)
    /\ page' = [page EXCEPT !.adds = @ + 1]
    /\ PageFrame /\ UNCHANGED <<wire, cartItems>>

\* fetchCart: GET /api/cart
fetchCart == Receive(PageRequest("GET", 0, 0, FALSE))

\* useEffect(() => fetchCart(), []): the Cart page is opened.
mount ==
    /\ ~page.mounted /\ inflight = EmptyBag
    /\ fetchCart
    /\ page' = [page EXCEPT !.mounted = TRUE]
    /\ PageFrame /\ UNCHANGED <<wire, cartItems>>

\* updateQuantity(id, quantity): PUT /api/cart/:id { quantity }
updateQuantity(id, q) == Receive(PageRequest("PUT", id, q, TRUE))

\* removeItem(id): DELETE /api/cart/:id
removeItem(id) == Receive(PageRequest("DELETE", id, 0, FALSE))

\* The quantity stored for the line that item displays: the line of the
\* product item.id (0 if the store holds no such line).
StoredQuantity(id) == SumQuantity(LinesOf(id))

\* The button + of a displayed item is clicked.
ClickPlus ==
    /\ page.mounted /\ page.clicks < MaxClicks
    /\ \E i \in 1..Len(cartItems) :
          LET item == cartItems[i]
          IN  /\ updateQuantity(item.id, PlusQuantity(item.quantity))
              /\ page' = [page EXCEPT
                    !.clicks = @ + 1,
                    !.plus = @ + 1,
                    !.onlyPlus = @ /\ (page.plus = 0 \/ page.target = item.id),
                    !.target = IF page.plus = 0 THEN item.id ELSE @,
                    !.base = IF page.plus = 0 THEN StoredQuantity(item.id) ELSE @]
    /\ PageFrame /\ UNCHANGED <<wire, cartItems>>

\* The button - of a displayed item is clicked.
ClickMinus ==
    /\ page.mounted /\ page.clicks < MaxClicks
    /\ \E i \in 1..Len(cartItems) :
          updateQuantity(cartItems[i].id, MinusQuantity(cartItems[i].quantity))
    /\ page' = [page EXCEPT !.clicks = @ + 1, !.onlyPlus = FALSE]
    /\ PageFrame /\ UNCHANGED <<wire, cartItems>>

\* The button Remove of a displayed item is clicked.
ClickRemove ==
    /\ page.mounted /\ page.clicks < MaxClicks
    /\ \E i \in 1..Len(cartItems) : removeItem(cartItems[i].id)
    /\ page' = [page EXCEPT !.clicks = @ + 1, !.onlyPlus = FALSE]
    /\ PageFrame /\ UNCHANGED <<wire, cartItems>>

\* .then(() => fetchCart()): the response to a PUT or a DELETE arrived.
then_fetchCart ==
    \E m \in BagToSet(wire) :
        /\ m.op \in {"PUT", "DELETE"}
        /\ wire' = wire (-) SetToBag({m})
        /\ fetchCart
        /\ PageFrame /\ UNCHANGED cartPage

\* .then(res => res.json()).then(data => setCartItems(data)): the response
\* to a GET arrived.
then_setCartItems ==
    \E m \in BagToSet(wire) :
        /\ m.op = "GET"
        /\ wire' = wire (-) SetToBag({m})
        /\ cartItems' = m.rows
        /\ UNCHANGED <<store, boot, page, controls, chatbot>>

NextPage ==
    \/ addToCart
    \/ mount
    \/ ClickPlus
    \/ ClickMinus
    \/ ClickRemove
    \/ then_fetchCart
    \/ then_setCartItems
    \/ \E r \in InFlight : post_get(r, FALSE)
    \/ \E r \in InFlight : post_update(r, FALSE)
    \/ \E r \in InFlight : post_insert(r, FALSE)
    \/ \E r \in InFlight : put_run(r, FALSE)
    \/ \E r \in InFlight : delete_run(r, FALSE)
    \/ \E r \in InFlight : get_all(r, FALSE)

SpecPage == Init /\ [][NextPage]_vars

\* Every request of the page was answered and every response has arrived.
PageQuiet == page.mounted /\ inflight = EmptyBag /\ wire = EmptyBag

\* C26: once the page is quiet, if the only clicks were page.plus clicks on
\* the + of one item, the quantity stored for the item's line is page.plus
\* more than it was at the first click.
C26_PlusClicksAllCount ==
    (PageQuiet /\ page.onlyPlus /\ page.plus > 0) =>
        StoredQuantity(page.target) = page.base + page.plus

\* C27: once the page is quiet, the rows displayed are the rows of the cart.
C27_DisplayMatchesStore ==
    PageQuiet => cartItems = SelectJoin(cart, products)

----------------------------------------------------------------------------
(* The chat widget, components/Chatbot.js.  A call of sendMessage runs up   *)
(* to its fetch, goes on when the fetch settles, and again when            *)
(* response.json() settles; each part runs to its end before any event is  *)
(* handled.  The input and the Send button are disabled while isLoading.   *)

MaxSends == 2   \* messages the user sends

\* The texts the user types in the input.
ChatTexts ==
    { <<>>, <<" ">>, <<"a">>, <<" ", "a", " ">>, <<"a", " ", "b">> }

RECURSIVE TrimEnd(_)
TrimEnd(t) ==
    IF t # <<>> /\ t[Len(t)] = " " THEN TrimEnd(SubSeq(t, 1, Len(t) - 1)) ELSE t

\* inputMessage.trim()
Trim(t) == TrimEnd(SkipWhiteSpace(t))

\* The three texts an assistant message can hold.
Reply == "data.response"
ErrorText == "Sorry, I encountered an error. Please try again."
NoConnectText ==
    "Sorry, I could not connect to the chatbot service. Please make sure it is running."

UserMessages == { i \in 1..Len(messages) : messages[i].role = "user" }

\* The chat widget touches nothing of the shop.
ChatOnly == UNCHANGED <<store, boot, wire, cartPage, controls>>

\* One position of a call of sendMessage is replaced by another, or dropped.
Goes(from, to) ==
    chat' = (chat (-) SetToBag({from})) (+)
            (IF to = "done" THEN EmptyBag ELSE SetToBag({to}))

\* onClick of the toggle button and of the close button.
toggle ==
    /\ isOpen' = ~isOpen
    /\ ChatOnly /\ UNCHANGED <<messages, inputMessage, isLoading, chat>>

\* onChange of the input, which is rendered when the window is open and
\* disabled while isLoading.
onChange ==
    /\ isOpen /\ ~isLoading
    /\ \E t \in ChatTexts : inputMessage' = t
    /\ ChatOnly /\ UNCHANGED <<isOpen, messages, isLoading, chat>>

\* sendMessage without setIsLoading(true).
sendMessage_not_loading ==
    /\ IF Trim(inputMessage) = <<>>
         THEN UNCHANGED <<messages, inputMessage, isLoading, chat>>
         ELSE /\ inputMessage' = <<>>
              /\ messages' = Append(messages,
                                [role |-> "user", content |-> Trim(inputMessage)])
              /\ isLoading' = isLoading
              /\ chat' = chat (+) SetToBag({"fetch"})
    /\ ChatOnly /\ UNCHANGED isOpen

\* sendMessage up to its fetch: nothing on a blank input; otherwise the
\* input is cleared, the user message appended, isLoading set and the
\* request sent.
sendMessage ==
    /\ IF Trim(inputMessage) = <<>>
         THEN UNCHANGED <<messages, inputMessage, isLoading, chat>>
         ELSE /\ inputMessage' = <<>>
              /\ messages' = Append(messages,
                                [role |-> "user", content |-> Trim(inputMessage)])
              /\ isLoading' = TRUE
              /\ chat' = chat (+) SetToBag({"fetch"})
    /\ ChatOnly /\ UNCHANGED isOpen

\* onSubmit of the form, which is rendered when the window is open; its
\* input and its button are disabled while isLoading.
submit ==
    /\ isOpen /\ ~isLoading
    /\ Cardinality(UserMessages) < MaxSends
    /\ sendMessage

\* The fetch resolved with a response: response.json() is awaited.
fetch_resolved ==
    /\ BagIn("fetch", chat)
    /\ Goes("fetch", "json")
    /\ ChatOnly /\ UNCHANGED <<isOpen, messages, inputMessage, isLoading>>

\* fetch_rejected with setIsLoading(false) left at the end of the try block.
fetch_rejected_stays_loading ==
    /\ BagIn("fetch", chat)
    /\ messages' = Append(messages,
                      [role |-> "assistant", content |-> NoConnectText])
    /\ Goes("fetch", "done")
    /\ ChatOnly /\ UNCHANGED <<isOpen, inputMessage, isLoading>>

\* The fetch rejected (network error): catch appends the could-not-connect
\* text, finally resets isLoading.
fetch_rejected ==
    /\ BagIn("fetch", chat)
    /\ messages' = Append(messages,
                      [role |-> "assistant", content |-> NoConnectText])
    /\ isLoading' = FALSE
    /\ Goes("fetch", "done")
    /\ ChatOnly /\ UNCHANGED <<isOpen, inputMessage>>

\* response.json() resolved with data: the reply if data.status is
\* 'success', the error text otherwise; finally resets isLoading.
json_resolved ==
    /\ BagIn("json", chat)
    /\ \E status \in {"success", "error"} :
          messages' = Append(messages,
              [role |-> "assistant",
               content |-> IF status = "success" THEN Reply ELSE ErrorText])
    /\ isLoading' = FALSE
    /\ Goes("json", "done")
    /\ ChatOnly /\ UNCHANGED <<isOpen, inputMessage>>

\* response.json() rejected (unparsable body): catch, then finally.
json_rejected ==
    /\ BagIn("json", chat)
    /\ messages' = Append(messages,
                      [role |-> "assistant", content |-> NoConnectText])
    /\ isLoading' = FALSE
    /\ Goes("json", "done")
    /\ ChatOnly /\ UNCHANGED <<isOpen, inputMessage>>

\* A promise awaited by a call of sendMessage settles.
Settle == fetch_resolved \/ fetch_rejected \/ json_resolved \/ json_rejected

NextChat ==
    \/ toggle
    \/ onChange
    \/ submit
    \/ fetch_resolved
    \/ fetch_rejected
    \/ json_resolved
    \/ json_rejected

\* Every request returns or fails: weak fairness of the settling.
SpecChat == Init /\ [][NextChat]_vars /\ WF_vars(Settle)

\* C28: the transcript alternates, user message first; it ends with a user
\* message exactly while a call of sendMessage is under way; and at most
\* one call is under way.
C28_TranscriptAlternates ==
    /\ \A i \in 1..Len(messages) :
          messages[i].role = IF i % 2 = 1 THEN "user" ELSE "assistant"
    /\ BagCardinality(chat) <= 1
    /\ BagCardinality(chat) = Len(messages) % 2

\* C28 witness: two messages were sent; the first got the reply, the second
\* the could-not-connect text.
C28_Witness ==
    /\ Len(messages) = 4 /\ chat = EmptyBag
    /\ messages[2].content = Reply /\ messages[4].content = NoConnectText

\* C29: whenever isLoading is true it becomes false again, and it is true
\* only while a call of sendMessage is under way.
C29_LoadingEnds ==
    /\ isLoading ~> ~isLoading
    /\ [](isLoading => BagCardinality(chat) > 0)

\* C29 witness: a request returned a status other than success, the error
\* text was appended and isLoading is false again.
C29_Witness ==
    /\ ~isLoading /\ chat = EmptyBag
    /\ Len(messages) = 2 /\ messages[2].content = ErrorText

====
